---- MODULE Spec2Model ----
(***************************************************************************)
(* Model of the amber ingestion pipeline: the SQL composer                 *)
(* (datacomposer.py), the table registry and its derivation functions      *)
(* (amber_data.py) and the two sink adapters (amber.py).                   *)
(*                                                                         *)
(* SQL text is modelled as a sequence of tokens: literal text is a token   *)
(* [s |-> text, n |-> 0], a positional placeholder "$k" is the token       *)
(* [s |-> "$", n |-> k].  Python's None is the string NONE.                *)
(***************************************************************************)
EXTENDS Integers, Sequences, FiniteSets, TLC

VARIABLES call, ret,
          consumer, payload, loop_counter, pc, spec_i, conn, ts, calls, logs,
          derived

vars == <<call, ret, consumer, payload, loop_counter, pc, spec_i, conn, ts,
          calls, logs, derived>>

fnVars == <<call, ret>>

sinkVars == <<consumer, payload, loop_counter, pc, spec_i, conn, ts, calls,
              logs, derived>>

(***************************************************************************)
(* Bounds of the model.                                                    *)
(***************************************************************************)
MaxNames == 3
MaxFields == 2
MaxRows == 3
MaxSinkRows == 2
MaxCycles == 2
MaxDdlFailures == 1

(***************************************************************************)
(* Python values.                                                          *)
(***************************************************************************)
NONE == "<None>"

Truthy(s) == s # NONE /\ s # ""

Tok(s) == [s |-> s, n |-> 0]

Placeholder(i) == [s |-> "$", n |-> i + 1]

RECURSIVE Join(_, _)
Join(parts, sep) ==
    IF Len(parts) = 0 THEN <<>>
    ELSE IF Len(parts) = 1 THEN parts[1]
    ELSE parts[1] \o <<sep>> \o Join(Tail(parts), sep)

(***************************************************************************)
(* datacomposer.py                                                         *)
(***************************************************************************)
FieldMap(in_name, data_type, column_name, keep, default) ==
    [in_name |-> in_name, data_type |-> data_type, column_name |-> column_name,
     keep |-> keep, default |-> default]

Field(in_name, data_type) == FieldMap(in_name, data_type, NONE, TRUE, NONE)

FieldDropped(in_name, data_type) == FieldMap(in_name, data_type, NONE, FALSE, NONE)

EffectiveName(f) == IF Truthy(f.column_name) THEN f.column_name ELSE f.in_name

KeptFields(fm) == SelectSeq(fm, LAMBDA f : f.keep)

get_in_names(fm) == [i \in 1..Len(KeptFields(fm)) |-> KeptFields(fm)[i].in_name]

get_column_names(fm) ==
    [i \in 1..Len(KeptFields(fm)) |-> EffectiveName(KeptFields(fm)[i])]

\* f"{name} {data_type} {default or ''}".strip()
FieldDesc(f) ==
    <<Tok(EffectiveName(f)), Tok(f.data_type)>>
        \o (IF f.default # NONE /\ f.default # "" THEN <<Tok(f.default)>> ELSE <<>>)

\* str.format(table_name=..., primary_key=...) of one template; a template is a
\* token sequence whose tokens "{table_name}", "{primary_key}" are replacement
\* fields; any other "{...}" token names a key that was not passed (KeyError).
FormatKeys == {"{table_name}", "{primary_key}"}

IsReplacementField(t) == t.s \in FormatKeys \cup {"{missing}"}

FormatRaises(xsql) ==
    \E i \in 1..Len(xsql) : IsReplacementField(xsql[i]) /\ xsql[i].s \notin FormatKeys

Format(xsql, table_name, primary_key) ==
    [i \in 1..Len(xsql) |->
        IF xsql[i].s = "{table_name}" THEN Tok(table_name)
        ELSE IF xsql[i].s = "{primary_key}"
             THEN Tok(IF primary_key = NONE THEN "None" ELSE primary_key)
        ELSE xsql[i]]

\* the clause with "if primary_key is not None" for "if primary_key".
PrimaryKeyClause_not_none(primary_key) ==
    IF primary_key # NONE
    THEN <<<<Tok(", PRIMARY KEY("), Tok(primary_key), Tok(")")>>>>
    ELSE <<>>

\* if primary_key: clauses.append(f", PRIMARY KEY({primary_key})")
PrimaryKeyClause(primary_key) ==
    IF Truthy(primary_key)
    THEN <<<<Tok(", PRIMARY KEY("), Tok(primary_key), Tok(")")>>>>
    ELSE <<>>

compose_create(table_name, fields, primary_key, extra_sql) ==
    LET kept == KeptFields(fields)
        fdesc == Join([i \in 1..Len(kept) |-> FieldDesc(kept[i])], Tok(",\n"))
        head == <<<<Tok("CREATE TABLE IF NOT EXISTS"), Tok(table_name), Tok("(\n")>>
                    \o fdesc>>
        pk == PrimaryKeyClause(primary_key)
        close == <<<<Tok(");")>>>>
        extra == [i \in 1..Len(extra_sql) |->
                     Format(extra_sql[i], table_name, primary_key)]
    IN  IF \E i \in 1..Len(extra_sql) : FormatRaises(extra_sql[i])
        THEN [raised |-> TRUE, sql |-> <<>>]
        ELSE [raised |-> FALSE,
              sql |-> Join(head \o pk \o close \o extra, Tok("\n"))]

\* compose_insert with the placeholders numbered from 0 (f"${i}").
compose_insert_zero_based(field_names, table_name, xclause) ==
    LET fields == Join([i \in 1..Len(field_names) |-> <<Tok(field_names[i])>>],
                       Tok(", "))
        placeholders == Join([i \in 1..Len(field_names) |->
                                 <<[s |-> "$", n |-> i - 1]>>], Tok(", "))
        sql == <<Tok("INSERT INTO"), Tok(table_name), Tok("(")>> \o fields
                   \o <<Tok(") values (")>> \o placeholders \o <<Tok(")")>>
    IN  IF Truthy(xclause) THEN sql \o <<Tok("\n"), Tok(xclause)>> ELSE sql

compose_insert(field_names, table_name, xclause) ==
    LET fields == Join([i \in 1..Len(field_names) |-> <<Tok(field_names[i])>>],
                       Tok(", "))
        \* range(len(field_names)) is 0..N-1
        placeholders == Join([i \in 1..Len(field_names) |->
                                 <<Placeholder(i - 1)>>], Tok(", "))
        sql == <<Tok("INSERT INTO"), Tok(table_name), Tok("(")>> \o fields
                   \o <<Tok(") values (")>> \o placeholders \o <<Tok(")")>>
    IN  IF Truthy(xclause) THEN sql \o <<Tok("\n"), Tok(xclause)>> ELSE sql

(***************************************************************************)
(* Tabular values.  A cell is an integer: a time in seconds, a number, or  *)
(* one of the codes below.  A frame is [cols, rows]; cols is the ordered   *)
(* column index and a row is [index, cells], index being the row's label   *)
(* in the raw dataset and cells a function on the frame's columns.         *)
(***************************************************************************)
NaN == -1
EmptyDict == -2
ACTUAL == 1
FORECAST == 2
MIN30 == 30
MIN5 == 5
RangeMap == 100
RangePair == 101
ZeroPair == 102
DaySeconds == 86400

Range(s) == {s[i] : i \in 1..Len(s)}

HasCol(df, c) == c \in Range(df.cols)

\* df.columns.intersection(names): the columns of df that are in names, in
\* the order of df.columns
\* the common columns taken in the order of the spec's names.
Intersection_in_names_order(cols, names) == SelectSeq(names, LAMBDA c : c \in Range(cols))

\* df.columns.intersection(names): the common columns in the order of df.columns
Intersection(cols, names) == SelectSeq(cols, LAMBDA c : c \in Range(names))

Project(rows, cols) ==
    [i \in 1..Len(rows) |->
        [index |-> rows[i].index,
         cells |-> [c \in Range(cols) |-> rows[i].cells[c]]]]

\* df.column: the column's cells, one per row
Column(df, c) == [i \in 1..Len(df.rows) |-> df.rows[i].cells[c]]

\* the positions a boolean mask selects, in order
Selected(mask) == SelectSeq([i \in 1..Len(mask) |-> i], LAMBDA i : mask[i])

\* df.loc[mask, columns]: a new frame of the rows mask selects
Loc(df, mask, names) ==
    LET cols == Intersection(df.cols, names)
        sel == Selected(mask)
    IN  [cols |-> cols,
         rows |-> Project([j \in 1..Len(sel) |-> df.rows[sel[j]]], cols)]

\* df[name] = values: replaces the column, or appends it as the last one
SetColumn(df, name, values) ==
    LET cols == IF HasCol(df, name) THEN df.cols ELSE Append(df.cols, name)
    IN  [cols |-> cols,
         rows |-> [i \in 1..Len(df.rows) |->
                     [index |-> df.rows[i].index,
                      cells |-> [c \in Range(cols) |->
                                    IF c = name THEN values[i]
                                    ELSE df.rows[i].cells[c]]]]]

IsNull(v) == v = NaN

(***************************************************************************)
(* amber_data.py                                                           *)
(***************************************************************************)
TABLE_RAW_ACTUAL_30MIN == "amber_actual_30min"
TABLE_RAW_ACTUAL_5MIN == "amber_actual_5min"
TABLE_RAW_FORECAST == "amber_forecast"
TABLE_RAW_FORECAST_ROLLING == "amber_forecast_rolling"
TIME_FIELD == "event_time"

actual_30min_fields == <<
    Field(TIME_FIELD, "TIMESTAMPTZ NOT NULL"),
    Field("semiScheduledGeneration", "DOUBLE PRECISION"),
    Field("operationalDemand", "DOUBLE PRECISION"),
    Field("rooftopSolar", "DOUBLE PRECISION"),
    Field("createdAt", "TIMESTAMPTZ"),
    Field("wholesaleKWHPrice", "DOUBLE PRECISION"),
    Field("region", "VARCHAR"),
    Field("period", "TIMESTAMPTZ NOT NULL"),
    Field("renewablesPercentage", "DOUBLE PRECISION"),
    Field("percentileRank", "DOUBLE PRECISION"),
    Field("postcode", "VARCHAR"),
    Field("usage_price", "DOUBLE PRECISION"),
    Field("export_price", "DOUBLE PRECISION") >>

actual_5min_fields == <<
    Field(TIME_FIELD, "TIMESTAMPTZ NOT NULL"),
    Field("operationalDemand", "DOUBLE PRECISION"),
    Field("rooftopSolar", "DOUBLE PRECISION"),
    Field("wholesaleKWHPrice", "DOUBLE PRECISION"),
    Field("region", "VARCHAR"),
    Field("period", "TIMESTAMPTZ NOT NULL"),
    Field("renewablesPercentage", "DOUBLE PRECISION"),
    Field("percentileRank", "DOUBLE PRECISION"),
    FieldDropped("latestPeriod", "TIMESTAMPTZ"),
    FieldDropped("usage", "DOUBLE PRECISION"),
    Field("postcode", "VARCHAR"),
    Field("usage_price", "DOUBLE PRECISION"),
    Field("export_price", "DOUBLE PRECISION") >>

forecast_fields == <<
    Field(TIME_FIELD, "TIMESTAMPTZ NOT NULL"),
    Field("semiScheduledGeneration", "DOUBLE PRECISION"),
    Field("operationalDemand", "DOUBLE PRECISION"),
    Field("rooftopSolar", "DOUBLE PRECISION"),
    Field("createdAt", "TIMESTAMPTZ"),
    Field("wholesaleKWHPrice", "DOUBLE PRECISION"),
    Field("region", "VARCHAR"),
    Field("period", "TIMESTAMPTZ NOT NULL"),
    Field("renewablesPercentage", "DOUBLE PRECISION"),
    Field("periodSource", "VARCHAR"),
    Field("percentileRank", "DOUBLE PRECISION"),
    Field("forecastedAt", "TIMESTAMPTZ"),
    Field("wholesaleKWHPriceRange", "DOUBLE PRECISION[]"),
    Field("postcode", "VARCHAR"),
    Field("usage_price", "DOUBLE PRECISION"),
    Field("export_price", "DOUBLE PRECISION") >>

forecast_rolling_fields ==
    forecast_fields \o << Field("forecast_lead", "INTEGER") >>

\* float(m["min"]), float(m["max"]); any failure gives (0, 0)
map_to_array(m) == IF m = RangeMap THEN RangePair ELSE ZeroPair

MapRange(of) ==
    IF HasCol(of, "wholesaleKWHPriceRange")
    THEN SetColumn(of, "wholesaleKWHPriceRange",
                   [i \in 1..Len(of.rows) |->
                       map_to_array(Column(of, "wholesaleKWHPriceRange")[i])])
    ELSE of

Raised == [raised |-> TRUE, df |-> [cols |-> <<>>, rows |-> <<>>]]

Returned(df) == [raised |-> FALSE, df |-> df]

\* of.iloc[[k]] for k = -1 (last) and k = 0 (first): IndexError on no rows
ILocLast(of) == [cols |-> of.cols, rows |-> <<of.rows[Len(of.rows)]>>]

\* iloc[[-1]] where the code has iloc[[0]].
ILocFirst_takes_last(of) == [cols |-> of.cols, rows |-> <<of.rows[Len(of.rows)]>>]

ILocFirst(of) == [cols |-> of.cols, rows |-> <<of.rows[1]>>]

\* calculate_actual_30min keeping the first matching row (iloc[[0]]).
calculate_actual_30min_first(spec, df) ==
    IF ~HasCol(df, "periodType") \/ ~HasCol(df, "periodSource") THEN Raised
    ELSE LET of == Loc(df, [i \in 1..Len(df.rows) |->
                                Column(df, "periodType")[i] = ACTUAL
                                /\ Column(df, "periodSource")[i] = MIN30],
                       get_column_names(spec.field_map))
         IN  IF Len(of.rows) = 0 THEN Raised ELSE Returned(ILocFirst(of))

calculate_actual_30min(spec, df) ==
    IF ~HasCol(df, "periodType") \/ ~HasCol(df, "periodSource") THEN Raised
    ELSE LET of == Loc(df, [i \in 1..Len(df.rows) |->
                                Column(df, "periodType")[i] = ACTUAL
                                /\ Column(df, "periodSource")[i] = MIN30],
                       get_column_names(spec.field_map))
         IN  IF Len(of.rows) = 0 THEN Raised ELSE Returned(ILocLast(of))

calculate_actual_5min(spec, df) ==
    IF ~HasCol(df, "periodType") \/ ~HasCol(df, "periodSource") THEN Raised
    ELSE Returned(Loc(df, [i \in 1..Len(df.rows) |->
                               Column(df, "periodType")[i] = ACTUAL
                               /\ Column(df, "periodSource")[i] = MIN5],
                      get_column_names(spec.field_map)))

calculate_forecast(spec, df) ==
    IF ~HasCol(df, "periodType") THEN Raised
    ELSE LET of == MapRange(Loc(df, [i \in 1..Len(df.rows) |->
                                         Column(df, "periodType")[i] = FORECAST],
                                get_column_names(spec.field_map)))
         IN  IF Len(of.rows) = 0 THEN Raised ELSE Returned(ILocFirst(of))

\* (period - forecastedAt).dt.seconds: the seconds component of the
\* timedelta (0 <= seconds < one day); NaT in either operand gives NaN
DtSeconds(period, forecastedAt) ==
    IF IsNull(period) \/ IsNull(forecastedAt) THEN NaN
    ELSE (period - forecastedAt) % DaySeconds

calculate_forecast_rolling(spec, df) ==
    IF ~HasCol(df, "periodType") THEN Raised
    ELSE LET of == Loc(df, [i \in 1..Len(df.rows) |->
                                Column(df, "periodType")[i] = FORECAST],
                       get_column_names(spec.field_map))
         IN  IF ~HasCol(of, "period") \/ ~HasCol(of, "forecastedAt") THEN Raised
             ELSE Returned(MapRange(SetColumn(of, "forecast_lead",
                      [i \in 1..Len(of.rows) |->
                          DtSeconds(Column(of, "period")[i],
                                    Column(of, "forecastedAt")[i])])))

DEFAULT_HYPERTABLE ==
    << Tok("SELECT create_hypertable('"), Tok("{table_name}"), Tok("', '"),
       Tok("{primary_key}"), Tok("', if_not_exists => TRUE);") >>

ROLLING_HYPERTABLE ==
    << Tok("SELECT create_hypertable('"), Tok("{table_name}"),
       Tok("', 'period', if_not_exists => TRUE);") >>

TableSpec(field_map, table_name, primary_key, calculate, extra_sql) ==
    [field_map |-> field_map, table_name |-> table_name,
     primary_key |-> primary_key, calculate |-> calculate,
     extra_sql |-> extra_sql]

table_specs == <<
    TableSpec(actual_30min_fields, TABLE_RAW_ACTUAL_30MIN, TIME_FIELD,
              "calculate_actual_30min", <<DEFAULT_HYPERTABLE>>),
    TableSpec(actual_5min_fields, TABLE_RAW_ACTUAL_5MIN, TIME_FIELD,
              "calculate_actual_5min", <<DEFAULT_HYPERTABLE>>),
    TableSpec(forecast_fields, TABLE_RAW_FORECAST, TIME_FIELD,
              "calculate_forecast", <<DEFAULT_HYPERTABLE>>),
    TableSpec(forecast_rolling_fields, TABLE_RAW_FORECAST_ROLLING,
              "period, forecast_lead", "calculate_forecast_rolling",
              <<ROLLING_HYPERTABLE>>) >>

NumSpecs == Len(table_specs)

\* TableSpec(...): the dataclass-generated __init__ stores its arguments;
\* the class has no __post_init__ and raises nothing
NewTableSpec(field_map, table_name, primary_key, calculate, extra_sql) ==
    [raised |-> FALSE,
     spec |-> TableSpec(field_map, table_name, primary_key, calculate, extra_sql)]

\* self.calculate(self, timeseries)
Calculate(spec, df) ==
    CASE spec.calculate = "calculate_actual_30min" -> calculate_actual_30min(spec, df)
      [] spec.calculate = "calculate_actual_5min" -> calculate_actual_5min(spec, df)
      [] spec.calculate = "calculate_forecast" -> calculate_forecast(spec, df)
      [] spec.calculate = "calculate_forecast_rolling" ->
            calculate_forecast_rolling(spec, df)

NoFrame == [cols |-> <<>>, rows |-> <<>>]

\* TableSpec.do_calculate without the try/except around self.calculate.
do_calculate_uncaught(spec, timeseries) ==
    IF spec.calculate # NONE
    THEN LET r == Calculate(spec, timeseries)
         IN  IF r.raised
             THEN [raised |-> TRUE, none |-> TRUE, df |-> NoFrame, logged |-> FALSE]
             ELSE [raised |-> FALSE, none |-> FALSE, df |-> r.df, logged |-> FALSE]
    ELSE [raised |-> FALSE, none |-> TRUE, df |-> NoFrame, logged |-> FALSE]

\* TableSpec.do_calculate: the frame calculate returns, or None (none = TRUE)
\* when there is no calculate or it raised; logged: log.exception was called
do_calculate(spec, timeseries) ==
    IF spec.calculate # NONE
    THEN LET r == Calculate(spec, timeseries)
         IN  IF r.raised
             THEN [raised |-> FALSE, none |-> TRUE, df |-> NoFrame, logged |-> TRUE]
             ELSE [raised |-> FALSE, none |-> FALSE, df |-> r.df, logged |-> FALSE]
    ELSE [raised |-> FALSE, none |-> TRUE, df |-> NoFrame, logged |-> FALSE]

(***************************************************************************)
(* Raw datasets: what to_timeseries returns.  A dataset is built from a    *)
(* sequence of row choices [kind, solar, lead]: an ACTUAL/30MIN row, an    *)
(* ACTUAL/5MIN row, or a FORECAST row produced at ForecastedAt for the     *)
(* period lead seconds later.  Actual rows carry no forecastedAt and no    *)
(* price range.                                                            *)
(***************************************************************************)
RawCols == << "periodType", "period", "rooftopSolar", "usage", "periodSource",
              "forecastedAt", "wholesaleKWHPriceRange" >>

RawCells(ch) ==
    [c \in Range(RawCols) |->
        CASE c = "periodType" -> IF ch.kind = "F" THEN FORECAST ELSE ACTUAL
          [] c = "periodSource" -> IF ch.kind = "A5" THEN MIN5 ELSE MIN30
          [] c = "period" -> 600000 + ch.lead
          [] c = "forecastedAt" -> IF ch.kind = "F" THEN 600000 ELSE NaN
          [] c = "wholesaleKWHPriceRange" -> IF ch.kind = "F" THEN RangeMap ELSE NaN
          [] c = "rooftopSolar" -> ch.solar
          [] c = "usage" -> 4]

RawFrame(choices) ==
    [cols |-> RawCols,
     rows |-> [i \in 1..Len(choices) |->
                 [index |-> i - 1, cells |-> RawCells(choices[i])]]]

Choice(kind, solar, lead) == [kind |-> kind, solar |-> solar, lead |-> lead]

SeqsUpTo(S, n) == UNION {[1..k -> S] : k \in 1..n}

\* ts[ad.TIME_FIELD] = event.event_time
Stamp(df, event_time) ==
    SetColumn(df, TIME_FIELD, [i \in 1..Len(df.rows) |-> event_time])

EventTime(counter) == 600150 + 300 * counter

ScenarioChoices ==
    << Choice("A30", 7, 0), Choice("A5", 7, 0), Choice("A5", 7, 0),
       Choice("A5", 7, 0), Choice("F", 7, 1800), Choice("F", 7, 3600) >>

Scenario == RawFrame(ScenarioChoices)

FnRowChoices ==
    {Choice("A30", 7, 0), Choice("A30", NaN, 0), Choice("A5", 7, 0),
     Choice("F", 7, 1800), Choice("F", 7, 3600),
     Choice("F", 7, DaySeconds + 1800)}

\* a payload whose records have no such key: to_timeseries logs "column not
\* found" for a float column and returns the dataset without it
WithoutColumn(df, name) ==
    LET cols == SelectSeq(df.cols, LAMBDA c : c # name)
    IN  [cols |-> cols, rows |-> Project(df.rows, cols)]

LackingDatasets ==
    {WithoutColumn(d, "rooftopSolar") :
        d \in {Scenario, RawFrame(<<Choice("F", 7, 1800)>>),
               RawFrame(<<Choice("A5", 7, 0), Choice("A30", 7, 0)>>)}}

FnDatasets ==
    {RawFrame(cs) : cs \in SeqsUpTo(FnRowChoices, MaxRows)}
        \cup {Scenario} \cup LackingDatasets

(***************************************************************************)
(* Calls of the pure functions: SpecFn draws one call and applies it.      *)
(***************************************************************************)
Names == {"a", "b", "c"}

InsertCalls ==
    {[fn |-> "compose_insert", field_names |-> fs, table_name |-> "t",
      xclause |-> x] :
        fs \in {<<>>} \cup SeqsUpTo(Names, MaxNames),
        x \in {NONE, "ON CONFLICT DO NOTHING"}}

FieldMaps ==
    {FieldMap(n, "VARCHAR", c, k, d) :
        n \in {"a", "b"}, c \in {NONE, "", "c"}, k \in BOOLEAN,
        d \in {NONE, "DEFAULT 0"}}

MissingKeyTemplate == << Tok("SELECT f('"), Tok("{missing}"), Tok("');") >>

CreateCalls ==
    {[fn |-> "compose_create", table_name |-> "t", fields |-> fs,
      primary_key |-> pk, extra_sql |-> xs] :
        fs \in {<<>>} \cup SeqsUpTo(FieldMaps, MaxFields),
        pk \in {NONE, "", "a, b"},
        xs \in {<<>>, <<DEFAULT_HYPERTABLE>>, <<MissingKeyTemplate>>}}

CalcCalls ==
    {[fn |-> "do_calculate", spec |-> i, df |-> Stamp(d, EventTime(0))] :
        i \in 1..NumSpecs, d \in FnDatasets}

ConstructCalls ==
    {[fn |-> "TableSpec", fields |-> fs, table_name |-> "t",
      primary_key |-> "a"] :
        fs \in {<<>>} \cup SeqsUpTo(FieldMaps, MaxFields)}

NotDone == [done |-> FALSE, v |-> <<>>]

SinkIdle ==
    /\ consumer = "none"
    /\ payload = NoFrame
    /\ loop_counter = 0
    /\ pc = "off"
    /\ spec_i = 0
    /\ conn = FALSE
    /\ ts = NoFrame
    /\ calls = <<>>
    /\ logs = <<>>
    /\ derived = <<>>

InitFn ==
    /\ call \in InsertCalls \cup CreateCalls \cup CalcCalls \cup ConstructCalls
    /\ ret = NotDone
    /\ SinkIdle

ComposeInsert ==
    /\ call.fn = "compose_insert"
    /\ ~ret.done
    /\ ret' = [done |-> TRUE,
               v |-> compose_insert(call.field_names, call.table_name,
                                    call.xclause)]
    /\ UNCHANGED <<call, sinkVars>>

ComposeCreate ==
    /\ call.fn = "compose_create"
    /\ ~ret.done
    /\ ret' = [done |-> TRUE,
               v |-> compose_create(call.table_name, call.fields,
                                    call.primary_key, call.extra_sql)]
    /\ UNCHANGED <<call, sinkVars>>

DoCalculate ==
    /\ call.fn = "do_calculate"
    /\ ~ret.done
    /\ ret' = [done |-> TRUE, v |-> do_calculate(table_specs[call.spec], call.df)]
    /\ UNCHANGED <<call, sinkVars>>

\* a TableSpec is constructed and, when that succeeds, handed to compose_create
Construct ==
    /\ call.fn = "TableSpec"
    /\ ~ret.done
    /\ LET made == NewTableSpec(call.fields, call.table_name, call.primary_key,
                                NONE, <<>>)
       IN  ret' = [done |-> TRUE,
                   v |-> [raised |-> made.raised,
                          spec |-> made.spec,
                          ddl |-> IF made.raised THEN <<>>
                                  ELSE compose_create(made.spec.table_name,
                                           made.spec.field_map,
                                           made.spec.primary_key,
                                           made.spec.extra_sql).sql]]
    /\ UNCHANGED <<call, sinkVars>>

NextFn == ComposeInsert \/ ComposeCreate \/ DoCalculate \/ Construct

SpecFn == InitFn /\ [][NextFn]_vars

(***************************************************************************)
(* amber.py: the sink adapters.  One behaviour of SpecSink runs one         *)
(* adapter (each owns its connection and builds its own ts) over           *)
(* MaxCycles cycles of the scheduler.  pc is the adapter call's position:  *)
(* "idle" (not entered), "loop" (about to process table_specs[spec_i]),    *)
(* "returned" (returned 0) or "raised" (an exception left the call; spec_i *)
(* is the table it left from, 0 for the initialization).  calls, logs and  *)
(* derived are what the current cycle has handed to the transport, has     *)
(* logged and has derived so far.                                          *)
(***************************************************************************)
Empty(df) == Len(df.rows) = 0 \/ Len(df.cols) = 0

\* DataFrame.dropna(): drops every row holding a null
DropNaRows(df) ==
    [cols |-> df.cols,
     rows |-> SelectSeq(df.rows,
                        LAMBDA r : \A c \in Range(df.cols) : ~IsNull(r.cells[c]))]

\* DataFrame.squeeze() of a frame of two or more columns: the one row as a
\* Series over the columns, any other frame unchanged
Squeeze(df) ==
    IF Len(df.rows) = 1
    THEN [kind |-> "series", keys |-> df.cols,
          vals |-> [k \in 1..Len(df.cols) |-> df.rows[1].cells[df.cols[k]]]]
    ELSE [kind |-> "frame", keys |-> df.cols,
          vals |-> [k \in 1..Len(df.cols) |-> NaN]]

\* Series.dropna(): drops the null entries
DropNaSeries(sq) ==
    LET keep == {k \in 1..Len(sq.keys) : ~IsNull(sq.vals[k])}
        idx == SelectSeq([k \in 1..Len(sq.keys) |-> k], LAMBDA k : k \in keep)
    IN  [kind |-> sq.kind,
         keys |-> [j \in 1..Len(idx) |-> sq.keys[idx[j]]],
         vals |-> [j \in 1..Len(idx) |-> sq.vals[idx[j]]]]

\* to_dict(): of a Series, label -> value; of a frame without rows,
\* column -> {}
ToDict(sq) ==
    IF sq.kind = "series" THEN [keys |-> sq.keys, vals |-> sq.vals]
    ELSE [keys |-> sq.keys, vals |-> [k \in 1..Len(sq.keys) |-> EmptyDict]]

\* df.to_dict("records"): one column -> value mapping per row
ToDictRecords(df) ==
    [i \in 1..Len(df.rows) |->
        [keys |-> df.cols,
         vals |-> [k \in 1..Len(df.cols) |-> df.rows[i].cells[df.cols[k]]]]]

Log(level, text, table) == [level |-> level, text |-> text, table |-> table]

TransportCall(table, op, sql, keys, args, outcome) ==
    [table |-> table, op |-> op, sql |-> sql, keys |-> keys, args |-> args,
     outcome |-> outcome]

Pending ==
    [pending |-> TRUE, raised |-> FALSE, none |-> TRUE, df |-> NoFrame,
     logged |-> FALSE]

Derived(r) ==
    [pending |-> FALSE, raised |-> r.raised, none |-> r.none, df |-> r.df,
     logged |-> r.logged]

AllPending == [i \in 1..NumSpecs |-> Pending]

SinkRowChoices ==
    {Choice("A30", 7, 0), Choice("A30", NaN, 0), Choice("A5", 7, 0),
     Choice("F", 7, 1800), Choice("F", NaN, 1800)}

\* pd.DataFrame(records) takes its column order from the records' keys: the
\* same rows under another column order
ReorderedCols == [i \in 1..Len(RawCols) |-> RawCols[Len(RawCols) + 1 - i]]

Reordered ==
    [cols |-> ReorderedCols,
     rows |-> RawFrame(<<Choice("A30", 7, 0), Choice("F", 7, 1800),
                         Choice("F", 7, 3600)>>).rows]

SinkDatasets ==
    {RawFrame(cs) : cs \in SeqsUpTo(SinkRowChoices, MaxSinkRows)}
        \cup {Scenario, Reordered}

NoCall == [fn |-> "none"]

InitSink ==
    /\ call = NoCall
    /\ ret = NotDone
    /\ consumer \in {"postgres", "mqtt"}
    /\ payload \in SinkDatasets
    /\ loop_counter = 0
    /\ pc = "idle"
    /\ spec_i = 0
    /\ conn = FALSE
    /\ ts = NoFrame
    /\ calls = <<>>
    /\ logs = <<>>
    /\ derived = AllPending

\* the server's answers to an insert: a value that is a dict is refused
InsertOutcomes(args) ==
    IF \E i \in 1..Len(args) : \E k \in 1..Len(args[i]) : args[i][k] = EmptyDict
    THEN {"error"}
    ELSE {"ok", "unique", "error"}

CreateSql(i) ==
    compose_create(table_specs[i].table_name, table_specs[i].field_map,
                   table_specs[i].primary_key, table_specs[i].extra_sql)

\* create_tables leaving its loop at the first DDL that fails.
DdlCalls_stops_at_failure(failing) ==
    LET all == [i \in 1..NumSpecs |->
                   TransportCall(i, "ddl", CreateSql(i).sql, <<>>, <<>>,
                                 IF i \in failing THEN "error" ELSE "ok")]
    IN  IF failing = {} THEN all
        ELSE SubSeq(all, 1, CHOOSE i \in failing : \A j \in failing : i <= j)

\* PostgresConsumer.create_tables with the DDL of the tables in failing
\* raising in conn.execute
DdlCalls(failing) ==
    [i \in 1..NumSpecs |->
        TransportCall(i, "ddl", CreateSql(i).sql, <<>>, <<>>,
                      IF i \in failing THEN "error" ELSE "ok")]

DdlLogs(failing) ==
    LET bad == SelectSeq([i \in 1..NumSpecs |-> i], LAMBDA i : i \in failing)
    IN  [j \in 1..Len(bad) |-> Log("exception", "failed to create table", bad[j])]

\* the handler of the first-cycle "try" with its "raise" left out: the
\* failure is logged and the call goes on into the loop.
InitRaised_swallowed(text) ==
    /\ ts' = Stamp(payload, EventTime(loop_counter))
    /\ pc' = "loop"
    /\ spec_i' = 1
    /\ logs' = <<Log("exception", text, 0)>>
    /\ UNCHANGED <<conn, calls, derived>>

\* connect() / start_client() raises: "except Exception: log.exception(...); raise"
InitRaised(text) ==
    /\ pc' = "raised"
    /\ spec_i' = 0
    /\ logs' = <<Log("exception", text, 0)>>
    /\ UNCHANGED <<conn, ts, calls, derived>>

EnterLoop(cs, ls) ==
    /\ ts' = Stamp(payload, EventTime(loop_counter))
    /\ pc' = "loop"
    /\ spec_i' = 1
    /\ calls' = cs
    /\ logs' = ls
    /\ UNCHANGED derived

\* PostgresConsumer.write up to the loop over the registry
PgBegin ==
    /\ consumer = "postgres"
    /\ pc = "idle"
    /\ IF loop_counter < 1
       THEN \/ InitRaised("PostgresWriter: failed to initialize connection/tables")
            \/ /\ \E i \in 1..NumSpecs : CreateSql(i).raised
               /\ conn' = TRUE
               /\ pc' = "raised"
               /\ spec_i' = 0
               /\ logs' = <<Log("exception",
                     "PostgresWriter: failed to initialize connection/tables", 0)>>
               /\ UNCHANGED <<ts, calls, derived>>
            \/ /\ \A i \in 1..NumSpecs : ~CreateSql(i).raised
               /\ \E failing \in SUBSET (1..NumSpecs) :
                     /\ Cardinality(failing) <= MaxDdlFailures
                     /\ conn' = TRUE
                     /\ EnterLoop(DdlCalls(failing), DdlLogs(failing))
       ELSE /\ EnterLoop(<<>>, <<>>)
            /\ UNCHANGED conn
    /\ UNCHANGED <<call, ret, consumer, payload, loop_counter>>

\* MqttConsumer.consume up to the loop over the registry
MqBegin ==
    /\ consumer = "mqtt"
    /\ pc = "idle"
    /\ IF loop_counter < 1
       THEN \/ InitRaised("mqtt: failed to initialize connection/tables")
            \/ /\ conn' = TRUE
               /\ EnterLoop(<<>>, <<>>)
       ELSE /\ EnterLoop(<<>>, <<>>)
            /\ UNCHANGED conn
    /\ UNCHANGED <<call, ret, consumer, payload, loop_counter>>

\* the end of one iteration of "for spec in ad.table_specs": continue with
\* the next spec (return 0 after the last), or leave by an exception
StepTo(raise, r, cs, ls) ==
    /\ derived' = [derived EXCEPT ![spec_i] = Derived(r)]
    /\ calls' = calls \o cs
    /\ logs' = logs \o ls
    /\ IF raise
       THEN pc' = "raised" /\ spec_i' = spec_i
       ELSE /\ spec_i' = spec_i + 1
            /\ pc' = IF spec_i = NumSpecs THEN "returned" ELSE "loop"
    /\ UNCHANGED <<call, ret, consumer, payload, loop_counter, conn, ts>>

CalcLogs(r, table) ==
    IF r.logged THEN <<Log("exception", "calculation exception", table)>> ELSE <<>>

\* the executemany handler without its "except UniqueViolationError".
ManyPropagates_unique_uncaught(o) == o \in {"error", "unique"}

\* try: executemany / except UniqueViolationError: which outcomes leave the
\* try statement as an exception
ManyPropagates(o) == o = "error"

\* the executemany branch (len(df) > 1)
PgMany(r) ==
    LET args == ToDictRecords(r.df)
        fields == args[1].keys
        ins_sql == compose_insert(fields, table_specs[spec_i].table_name, NONE)
        values == [i \in 1..Len(args) |-> args[i].vals]
    IN  IF ~conn
        THEN StepTo(TRUE, r, <<>>,
                    <<Log("exception", "PostgresWriter: failed to write", spec_i)>>)
        ELSE \E o \in InsertOutcomes(values) :
                StepTo(ManyPropagates(o), r,
                       <<TransportCall(spec_i, "executemany", ins_sql, fields,
                                       values, o)>>,
                       CASE o = "unique" -> <<Log("warning", "unique violation", spec_i)>>
                         [] o = "error" -> <<Log("exception",
                                "PostgresWriter: failed to write", spec_i)>>
                         [] o = "ok" -> <<>>)

\* the execute branch (one row)
PgOne(r) ==
    LET data == ToDict(Squeeze(DropNaRows(r.df)))
        fields == data.keys
        ins_sql == compose_insert(fields, table_specs[spec_i].table_name, NONE)
        written == <<Log("info", "PostgresWriter: written", spec_i)>>
    IN  IF ~conn
        THEN StepTo(FALSE, r, <<>>,
                    <<Log("exception", "postgres failed to write", spec_i)>>
                        \o written)
        ELSE \E o \in InsertOutcomes(<<data.vals>>) :
                StepTo(FALSE, r,
                       <<TransportCall(spec_i, "execute", ins_sql, fields,
                                       <<data.vals>>, o)>>,
                       (CASE o = "unique" -> <<Log("warning", "unique violation", spec_i)>>
                          [] o = "error" -> <<Log("exception",
                                 "postgres failed to write", spec_i)>>
                          [] o = "ok" -> <<>>) \o written)

\* one iteration of the loop of PostgresConsumer.write
PgTable ==
    /\ consumer = "postgres"
    /\ pc = "loop"
    /\ LET r == do_calculate(table_specs[spec_i], ts)
       IN  IF r.raised
           THEN StepTo(TRUE, r, <<>>,
                       <<Log("exception", "PostgresWriter: failed to write", spec_i)>>)
           ELSE IF r.none \/ Empty(r.df)
           THEN StepTo(FALSE, r, <<>>,
                       CalcLogs(r, spec_i) \o <<Log("info", "table is empty", spec_i)>>)
           ELSE IF Len(r.df.rows) > 1 THEN PgMany(r)
           ELSE PgOne(r)

\* one iteration of the loop of MqttConsumer.consume
MqTable ==
    /\ consumer = "mqtt"
    /\ pc = "loop"
    /\ LET r == do_calculate(table_specs[spec_i], ts)
       IN  IF r.raised
           THEN StepTo(TRUE, r, <<>>, <<>>)
           ELSE IF r.none \/ Empty(r.df)
           THEN StepTo(FALSE, r, <<>>,
                       CalcLogs(r, spec_i) \o <<Log("info", "mqtt table is empty", spec_i)>>)
           ELSE IF Len(r.df.rows) > 1
           THEN StepTo(FALSE, r, <<>>,
                       <<Log("info", "mqtt multiple rows not implemented yet", spec_i)>>)
           ELSE LET d == ToDict(DropNaSeries(Squeeze(r.df)))
                    failed == <<Log("exception", "mqtt publish failed", spec_i)>>
                IN  IF ~conn
                    THEN \* no client attribute, or a client that never connected
                         \/ StepTo(FALSE, r, <<>>, failed)
                         \/ StepTo(FALSE, r,
                                   <<TransportCall(spec_i, "publish", <<>>, d.keys,
                                                   <<d.vals>>, "error")>>, failed)
                    ELSE \E o \in {"ok", "error"} :
                            StepTo(FALSE, r,
                                   <<TransportCall(spec_i, "publish", <<>>, d.keys,
                                                   <<d.vals>>, o)>>,
                                   IF o = "error" THEN failed ELSE <<>>)

\* the scheduler's next tick: the adapter is called again
NextCycle ==
    /\ pc \in {"returned", "raised"}
    /\ loop_counter + 1 < MaxCycles
    /\ loop_counter' = loop_counter + 1
    /\ pc' = "idle"
    /\ spec_i' = 0
    /\ ts' = NoFrame
    /\ calls' = <<>>
    /\ logs' = <<>>
    /\ derived' = AllPending
    /\ UNCHANGED <<call, ret, consumer, payload, conn>>

NextSink == PgBegin \/ MqBegin \/ PgTable \/ MqTable \/ NextCycle

SpecSink == InitSink /\ [][NextSink]_vars

(***************************************************************************)
(* Reading generated SQL back.                                             *)
(***************************************************************************)
FirstIndex(toks, t) ==
    IF \E i \in 1..Len(toks) : toks[i] = t
    THEN CHOOSE i \in 1..Len(toks) : toks[i] = t /\ \A j \in 1..(i - 1) : toks[j] # t
    ELSE 0

\* toks is items separated by sep, one token per item
WellJoined(toks, sep) ==
    \/ Len(toks) = 0
    \/ /\ Len(toks) % 2 = 1
       /\ \A i \in 1..Len(toks) : (toks[i] = sep) <=> (i % 2 = 0)

Items(toks, sep) == SelectSeq(toks, LAMBDA t : t # sep)

InsertColumns(sql) ==
    SubSeq(sql, FirstIndex(sql, Tok("(")) + 1, FirstIndex(sql, Tok(") values (")) - 1)

InsertPlaceholders(sql) ==
    SubSeq(sql, FirstIndex(sql, Tok(") values (")) + 1, FirstIndex(sql, Tok(")")) - 1)

RECURSIVE Split(_, _)
Split(toks, sep) ==
    IF Len(toks) = 0 THEN <<>>
    ELSE LET k == FirstIndex(toks, sep)
         IN  IF k = 0 THEN <<toks>>
             ELSE <<SubSeq(toks, 1, k - 1)>> \o Split(SubSeq(toks, k + 1, Len(toks)), sep)

\* the column entries of a CREATE TABLE statement: from after "(\n" to the end
\* of the first clause
CreateEntries(sql) ==
    LET open == FirstIndex(sql, Tok("(\n"))
        stop == FirstIndex(sql, Tok("\n"))
    IN  Split(SubSeq(sql, open + 1, stop - 1), Tok(",\n"))

RECURSIVE KeptNames(_)
KeptNames(fields) ==
    IF Len(fields) = 0 THEN <<>>
    ELSE (IF Head(fields).keep
          THEN <<IF Head(fields).column_name \notin {NONE, ""}
                 THEN Head(fields).column_name ELSE Head(fields).in_name>>
          ELSE <<>>) \o KeptNames(Tail(fields))

(***************************************************************************)
(* C1: compose_insert lists exactly the given names in the given order     *)
(* (nothing reordered, deduplicated or dropped) and its placeholders are   *)
(* exactly $1..$N in increasing order, for every N >= 0.                   *)
(***************************************************************************)
C1_InsertPositional ==
    (ret.done /\ call.fn = "compose_insert") =>
        LET cols == InsertColumns(ret.v)
            phs == InsertPlaceholders(ret.v)
            N == Len(call.field_names)
        IN  /\ ret.v[1] = Tok("INSERT INTO")
            /\ WellJoined(cols, Tok(", "))
            /\ WellJoined(phs, Tok(", "))
            /\ Items(cols, Tok(", ")) = [i \in 1..N |-> Tok(call.field_names[i])]
            /\ Items(phs, Tok(", ")) = [i \in 1..N |-> [s |-> "$", n |-> i]]

C1_Witness ==
    /\ ret.done
    /\ call.fn = "compose_insert"
    /\ Len(call.field_names) = 3
    /\ call.field_names[1] = call.field_names[3]
    /\ call.field_names[2] # call.field_names[1]

(***************************************************************************)
(* C2: compose_create emits one column entry per keep-true field and none  *)
(* for keep-false fields, in declaration order, each naming the effective  *)
(* column name, and has a PRIMARY KEY(...) clause iff primary_key is       *)
(* non-empty.                                                              *)
(***************************************************************************)
C2_CreateListsKept ==
    (ret.done /\ call.fn = "compose_create" /\ ~ret.v.raised) =>
        LET entries == CreateEntries(ret.v.sql)
            names == KeptNames(call.fields)
        IN  /\ Len(entries) = Len(names)
            /\ \A i \in 1..Len(entries) :
                  Len(entries[i]) >= 1 /\ entries[i][1] = Tok(names[i])
            /\ (\E i \in 1..Len(ret.v.sql) : ret.v.sql[i] = Tok(", PRIMARY KEY("))
                  <=> call.primary_key \notin {NONE, ""}

C2_Witness ==
    /\ ret.done
    /\ call.fn = "compose_create"
    /\ ~ret.v.raised
    /\ Len(call.fields) = 2
    /\ ~call.fields[1].keep
    /\ call.fields[2].keep
    /\ call.fields[2].column_name = "c"
    /\ call.primary_key = ""

RowAt(df, index) == CHOOSE r \in Range(df.rows) : r.index = index

IsCalc(name) ==
    /\ ret.done
    /\ call.fn = "do_calculate"
    /\ table_specs[call.spec].calculate = name

(***************************************************************************)
(* C7: for every FORECAST row whose target period P is later than its      *)
(* production time T (differences of a day or more included),              *)
(* calculate_forecast_rolling computes forecast_lead = P - T in whole      *)
(* seconds.                                                                *)
(***************************************************************************)
C7_LeadIsPeriodMinusForecastedAt ==
    (IsCalc("calculate_forecast_rolling") /\ ~ret.v.none) =>
        \A i \in 1..Len(ret.v.df.rows) :
            LET r == ret.v.df.rows[i]
                raw == RowAt(call.df, r.index)
                P == raw.cells["period"]
                T == raw.cells["forecastedAt"]
            IN  (T # NaN /\ P > T) => r.cells["forecast_lead"] = P - T

(***************************************************************************)
(* C10: with N >= 1 ACTUAL/30MIN rows in the raw dataset,                  *)
(* calculate_actual_30min returns exactly one row, the last matching row   *)
(* in input order, whatever rows of other kinds follow it.                 *)
(***************************************************************************)
Matching30(df) ==
    {i \in 1..Len(df.rows) :
        /\ df.rows[i].cells["periodType"] = ACTUAL
        /\ df.rows[i].cells["periodSource"] = MIN30}

Max(S) == CHOOSE x \in S : \A y \in S : y <= x

C10_Actual30IsLastMatching ==
    (IsCalc("calculate_actual_30min") /\ Matching30(call.df) # {}) =>
        /\ ~ret.v.none
        /\ Len(ret.v.df.rows) = 1
        /\ LET want == call.df.rows[Max(Matching30(call.df))]
               got == ret.v.df.rows[1]
           IN  /\ got.index = want.index
               /\ {"event_time", "period"} \subseteq Range(ret.v.df.cols)
               /\ \A c \in Range(get_column_names(table_specs[call.spec].field_map)) :
                      HasCol(call.df, c) => HasCol(ret.v.df, c)
               /\ \A c \in Range(ret.v.df.cols) : got.cells[c] = want.cells[c]

C10_Witness ==
    /\ IsCalc("calculate_actual_30min")
    /\ Len(call.df.rows) = 3
    /\ Matching30(call.df) = {1, 2}
    /\ call.df.rows[1].cells["rooftopSolar"] # call.df.rows[2].cells["rooftopSolar"]
    /\ Len(ret.v.df.rows) = 1
    /\ ret.v.df.rows[1].index = 1

(***************************************************************************)
(* The sink adapters' claims.                                              *)
(***************************************************************************)
InsertOps == {"execute", "executemany"}

CallsFor(i) == {k \in 1..Len(calls) : calls[k].table = i /\ calls[k].op # "ddl"}

WriteFailureLogged(table) ==
    \E k \in 1..Len(logs) :
        /\ logs[k].level = "exception"
        /\ logs[k].table = table
        /\ logs[k].text \in {"postgres failed to write",
                             "PostgresWriter: failed to write"}

UniqueViolationLogged(table) ==
    \E k \in 1..Len(logs) :
        /\ logs[k].level = "warning"
        /\ logs[k].table = table
        /\ logs[k].text = "unique violation"

\* the call left the loop by an exception while processing table i
RaisedAt(i) == pc = "raised" /\ spec_i = i

\* the loop went on from table i to the next table (or to "return 0")
WentOnFrom(i) == spec_i > i /\ pc \in {"loop", "returned", "raised"}

(***************************************************************************)
(* C3: in PostgresConsumer.write, after a successful initialization, when  *)
(* the insert of one table (execute or executemany) fails with an error    *)
(* other than a uniqueness violation, the failure is logged, write does    *)
(* not raise and goes on to the next table.                                *)
(***************************************************************************)
C3_OtherWriteFailureContinues ==
    \A k \in 1..Len(calls) :
        (consumer = "postgres" /\ calls[k].op \in InsertOps
            /\ calls[k].outcome = "error") =>
                /\ WriteFailureLogged(calls[k].table)
                /\ ~RaisedAt(calls[k].table)
                /\ WentOnFrom(calls[k].table)

C4_WitnessPostgres ==
    /\ consumer = "postgres"
    /\ pc = "returned"
    /\ Calculate(table_specs[3], ts).raised
    /\ derived[3].none
    /\ ~derived[4].pending
    /\ CallsFor(1) # {}
    /\ CallsFor(3) = {}

NonNullCols(df) ==
    SelectSeq(df.cols, LAMBDA c : df.rows[1].cells[c] # NaN)

OneRowMappingOK(k) ==
    LET df == derived[calls[k].table].df
        want == NonNullCols(df)
    IN  /\ calls[k].keys = want
        /\ calls[k].args = <<[j \in 1..Len(want) |-> df.rows[1].cells[want[j]]]>>

C6_OneRowDropsOnlyNullColumns ==
    \A k \in 1..Len(calls) :
        calls[k].op \in {"execute", "publish"} => OneRowMappingOK(k)

(***************************************************************************)
(* C8: in every insert executed by PostgresConsumer.write the number of    *)
(* values of each row equals the number of placeholders of the statement,  *)
(* and the i-th value is the derived row's value for the i-th column of    *)
(* the statement's column list.                                            *)
(***************************************************************************)
InsertValuesOK(k) ==
    LET df == derived[calls[k].table].df
        cols == Items(InsertColumns(calls[k].sql), Tok(", "))
        phs == Items(InsertPlaceholders(calls[k].sql), Tok(", "))
    IN  \A j \in 1..Len(calls[k].args) :
            /\ Len(calls[k].args[j]) = Len(phs)
            /\ Len(cols) = Len(phs)
            /\ \A m \in 1..Len(phs) :
                  /\ phs[m].n = m
                  /\ calls[k].args[j][m] = df.rows[j].cells[cols[m].s]

C8_InsertValuesMatchPlaceholders ==
    \A k \in 1..Len(calls) : calls[k].op \in InsertOps => InsertValuesOK(k)

(***************************************************************************)
(* C9: processing the registry in order on the dataset of one ACTUAL/30MIN *)
(* row, three ACTUAL/5MIN rows and two FORECAST rows 30 and 60 minutes     *)
(* ahead yields 1 row for the 30-minute actual table, 3 rows for the       *)
(* 5-minute actual table, 1 row (the first FORECAST row) for the forecast  *)
(* table, and 2 rows with forecast_lead 1800 and 3600 for the rolling      *)
(* forecast table.                                                         *)
(***************************************************************************)
Indexes(df) == [j \in 1..Len(df.rows) |-> df.rows[j].index]

C9_ScenarioRows ==
    payload = Scenario =>
        /\ ~derived[1].pending =>
              ~derived[1].none /\ Indexes(derived[1].df) = <<0>>
        /\ ~derived[2].pending =>
              ~derived[2].none /\ Indexes(derived[2].df) = <<1, 2, 3>>
        /\ ~derived[3].pending =>
              /\ ~derived[3].none
              /\ Indexes(derived[3].df) = <<4>>
              /\ derived[3].df.rows[1].cells["period"]
                    - derived[3].df.rows[1].cells["forecastedAt"] = 1800
        /\ ~derived[4].pending =>
              /\ ~derived[4].none
              /\ Indexes(derived[4].df) = <<4, 5>>
              /\ derived[4].df.rows[1].cells["forecast_lead"] = 1800
              /\ derived[4].df.rows[2].cells["forecast_lead"] = 3600

C9_Witness ==
    /\ payload = Scenario
    /\ pc = "returned"
    /\ \A i \in 1..NumSpecs : ~derived[i].pending
    /\ table_specs[4].table_name = TABLE_RAW_FORECAST_ROLLING
    /\ Len(derived[4].df.rows) = 2

(***************************************************************************)
(* C11: constructing a TableSpec whose keep-true fields hold two fields    *)
(* with the same source name, or two with the same effective column name,  *)
(* fails with a construction error, so that no such TableSpec reaches      *)
(* compose_create.                                                         *)
(***************************************************************************)
HasDuplicates(names) ==
    \E i, j \in 1..Len(names) : i # j /\ names[i] = names[j]

DuplicateKeptNames(fields) ==
    \/ HasDuplicates(get_in_names(fields))
    \/ HasDuplicates(get_column_names(fields))

C11_DuplicateKeptNamesRejected ==
    (ret.done /\ call.fn = "TableSpec" /\ DuplicateKeptNames(call.fields)) =>
        ret.v.raised

(***************************************************************************)
(* C12: for both sink adapters the connection is established only in a     *)
(* cycle whose loop counter is below 1, and when establishing it fails in  *)
(* that cycle the adapter call raises to its caller with no table derived, *)
(* created, inserted or published in that cycle.                           *)
(***************************************************************************)
InitFailureLogged ==
    \E k \in 1..Len(logs) :
        /\ logs[k].level = "exception"
        /\ logs[k].table = 0
        /\ logs[k].text \in {"PostgresWriter: failed to initialize connection/tables",
                             "mqtt: failed to initialize connection/tables"}

ConnectFailed == InitFailureLogged /\ ~conn

NothingDone ==
    /\ calls = <<>>
    /\ derived = AllPending
    /\ ts = NoFrame

C12_ConnectOnceAndFailureIsFatal ==
    [][/\ (conn' # conn) => (loop_counter < 1 /\ pc = "idle" /\ conn')
       /\ ConnectFailed' =>
            (loop_counter' < 1 /\ pc' = "raised" /\ spec_i' = 0 /\ NothingDone')]_vars

C12_Witness ==
    /\ ConnectFailed
    /\ pc = "raised"
    /\ loop_counter < 1
    /\ NothingDone

(***************************************************************************)
(* C13: for every table spec, a derivation over a non-empty raw dataset    *)
(* holding zero rows of that table's kind ends as an empty result through  *)
(* the normal path: the derivation function does not raise and nothing is  *)
(* logged as a calculation exception.                                      *)
(***************************************************************************)
RowsOfKind(name, df) ==
    {i \in 1..Len(df.rows) :
        LET type == df.rows[i].cells["periodType"]
            source == df.rows[i].cells["periodSource"]
        IN  CASE name = "calculate_actual_30min" -> type = ACTUAL /\ source = MIN30
              [] name = "calculate_actual_5min" -> type = ACTUAL /\ source = MIN5
              [] OTHER -> type = FORECAST}

C13_ZeroRowsIsNormalEmpty ==
    \A i \in 1..NumSpecs :
        (/\ IsCalc(table_specs[i].calculate)
         /\ call.spec = i
         /\ Len(call.df.rows) > 0
         /\ RowsOfKind(table_specs[i].calculate, call.df) = {}) =>
            /\ ~ret.v.logged
            /\ ~ret.v.none
            /\ Len(ret.v.df.rows) = 0

(***************************************************************************)
(* C14 as stated: for every table spec and every raw dataset, whatever the *)
(* order of the raw dataset's columns, the column list of each insert      *)
(* statement PostgresConsumer.write generates for that table lists its     *)
(* columns in the relative order in which the spec declares them.          *)
(***************************************************************************)
InsertCalls_of_write == {k \in 1..Len(calls) : calls[k].op \in InsertOps}

InsertColumnNames(k) ==
    LET toks == Items(InsertColumns(calls[k].sql), Tok(", "))
    IN  [a \in 1..Len(toks) |-> toks[a].s]

InOrderOf(cols, order) ==
    \A a, b \in 1..Len(cols) :
        a < b => /\ FirstIndex(order, cols[a]) > 0
                 /\ FirstIndex(order, cols[a]) < FirstIndex(order, cols[b])

C14_InsertColumnsInSpecOrder ==
    \A k \in InsertCalls_of_write :
        InOrderOf(InsertColumnNames(k),
                  get_column_names(table_specs[calls[k].table].field_map))

(***************************************************************************)
(* C14 amended: the column list of each insert statement write generates   *)
(* holds only columns the table's spec keeps, each once, in the order of   *)
(* the derived frame: the raw dataset's own column order, then event_time  *)
(* (stamped by write after the raw columns), then the computed             *)
(* forecast_lead.                                                          *)
(***************************************************************************)
C14_InsertColumnsInDatasetOrder ==
    \A k \in InsertCalls_of_write :
        LET cols == InsertColumnNames(k)
            names == get_column_names(table_specs[calls[k].table].field_map)
        IN  /\ Len(cols) > 0
            /\ \A a \in 1..Len(cols) : cols[a] \in Range(names)
            /\ InOrderOf(cols, payload.cols \o <<TIME_FIELD, "forecast_lead">>)

C14_Witness ==
    /\ payload = Reordered
    /\ pc = "returned"
    /\ \E k \in InsertCalls_of_write :
          /\ calls[k].op = "executemany"
          /\ Len(InsertColumnNames(k)) >= 3
    /\ \E k \in InsertCalls_of_write :
          /\ calls[k].op = "execute"
          /\ Len(InsertColumnNames(k)) >= 3

(***************************************************************************)
(* C15: in PostgresConsumer, schema creation runs only in the cycle whose  *)
(* loop counter is below 1, once per table spec in registry order; when    *)
(* executing the DDL of one table fails, the failure is logged, the DDL of *)
(* every later table is still executed, and the cycle goes on to derive    *)
(* and insert.                                                             *)
(***************************************************************************)
DdlIndexes == {k \in 1..Len(calls) : calls[k].op = "ddl"}

CreateFailureLogged(table) ==
    \E k \in 1..Len(logs) :
        /\ logs[k].level = "exception"
        /\ logs[k].table = table
        /\ logs[k].text = "failed to create table"

InLoop == pc \in {"loop", "returned"} \/ (pc = "raised" /\ spec_i >= 1)

C15_SchemaCreationFirstCycleBestEffort ==
    /\ DdlIndexes # {} => (consumer = "postgres" /\ loop_counter < 1)
    /\ (consumer = "postgres" /\ loop_counter < 1 /\ InLoop) =>
          /\ DdlIndexes = 1..NumSpecs
          /\ \A i \in 1..NumSpecs :
                /\ calls[i].table = i
                /\ calls[i].sql = CreateSql(i).sql
                /\ calls[i].outcome = "error" <=> CreateFailureLogged(i)
    /\ (\E k \in DdlIndexes : calls[k].outcome = "error") => InLoop
    /\ (pc = "returned" /\ \E k \in DdlIndexes : calls[k].outcome = "error") =>
          \A i \in 1..NumSpecs : ~derived[i].pending

C15_Witness ==
    /\ pc = "returned"
    /\ calls[1].op = "ddl"
    /\ calls[1].outcome = "error"
    /\ CreateFailureLogged(1)
    /\ \A i \in 2..NumSpecs : calls[i].op = "ddl" /\ calls[i].outcome = "ok"
    /\ \E k \in 1..Len(calls) : calls[k].op \in InsertOps /\ calls[k].outcome = "ok"

(***************************************************************************)
(* C16: for every table's derivation function, when the raw dataset lacks  *)
(* a column named by one of the spec's kept fields, the derivation does    *)
(* not error: it returns the rows it selects with the remaining kept       *)
(* columns only.                                                           *)
(***************************************************************************)
LacksKeptColumn(spec, df) ==
    \E c \in Range(get_column_names(spec.field_map)) : ~HasCol(df, c)

C16_AbsentColumnTolerated ==
    (/\ ret.done
     /\ call.fn = "do_calculate"
     /\ LacksKeptColumn(table_specs[call.spec], call.df)) =>
        LET names == Range(get_column_names(table_specs[call.spec].field_map))
        IN  /\ ~ret.v.logged
            /\ ~ret.v.none
            /\ Range(ret.v.df.cols) \subseteq names
            /\ \A c \in names : HasCol(call.df, c) => HasCol(ret.v.df, c)
            /\ \A i \in 1..Len(ret.v.df.rows) :
                  (ret.v.df.rows[i].index + 1) \in
                      RowsOfKind(table_specs[call.spec].calculate, call.df)

====
